---- MODULE Spec2Model ----
(***************************************************************************)
(* A state-machine model of src/blender_simple.py: the export pipeline     *)
(* (BlenderExporter.export_animation_frames and the two operators          *)
(* ANIM_OT_export_frames.execute and ANIM_OT_export_spritesheet.execute),  *)
(* the camera set-up (setup_camera, setup_flip_modifier, get_static_bounds)*)
(* and analyze_animation_bounds.                                           *)
(*                                                                         *)
(* Names are sequences of one-character strings.  The host (Blender) is    *)
(* the environment: a render either writes its file or raises, an image    *)
(* open/load/save either succeeds or raises, os.listdir returns the        *)
(* directory in an arbitrary order, and the bounding box of the target is  *)
(* the box of the pose the scene is in.                                    *)
(***************************************************************************)
EXTENDS Integers, Sequences, FiniteSets, TLC

VARIABLES
    pil,        \* _PIL_AVAILABLE, fixed when the module is imported
    props,      \* context.scene.anim_exporter (AnimationExporterProperties)
    actions,    \* bpy.data.actions: records [name, fs, fe]
    runs,       \* number of operator invocations started so far
    pc,         \* "idle" | "export" (inside the loop of export_animation_frames)
    op,         \* the operator that is executing / executed last
    call,       \* locals of the running export_animation_frames call
    sh,         \* locals of the running ANIM_OT_export_spritesheet.execute
    tempExists, \* does output_path/temp_frames exist on disk
    tempFiles,  \* the frame files below output_path/temp_frames
    events,     \* host calls made by the current export call, in order
    res,        \* what the current/last operator invocation has produced
    faults,     \* can the host's render / image I/O fail in this session
    scene,      \* bpy.context.scene and the target: render format, camera, bounding box
    cam,        \* bookkeeping of direct setup_camera / setup_flip_modifier calls
    an          \* locals of the running analyze_animation_bounds call

vars == <<pil, props, actions, runs, pc, op, call, sh, tempExists, tempFiles, events, res,
          faults, scene, cam, an>>

-----------------------------------------------------------------------------
(* Bounds of the model *)

MaxRuns == 2
MaxFrame == 3
MaxOpenFailures == 1
MaxRangeFrame == 10
MaxGridFrame == 16
MaxFlips == 2
MaxPixelFrames == 5
MaxPixelSize == 2
MaxAnalyzeFrame == 62

\* camera_padding_percent: IntProperty(min=1, max=100)
MinPaddingPercent == 1
MaxPaddingPercent == 100

-----------------------------------------------------------------------------
(* Pure helpers *)

Max2(a, b) == IF a >= b THEN a ELSE b
Min2(a, b) == IF a <= b THEN a ELSE b

Range(s) == {s[k] : k \in 1..Len(s)}

\* str.replace(c, r) for a one-character c
Replace(s, c, r) == [k \in 1..Len(s) |-> IF s[k] = c THEN r ELSE s[k]]

CleanNameSix(s) ==
    Replace(Replace(Replace(Replace(Replace(Replace(s,
        "|", "_"), ":", "_"), "*", "_"), "?", "_"), "<", "_"), ">", "_")

\* the chain of seven replace calls
CleanName(s) ==
    Replace(Replace(Replace(Replace(Replace(Replace(Replace(s,
        "|", "_"), ":", "_"), "*", "_"), "?", "_"), "<", "_"), ">", "_"), "\"", "_")

RECURSIVE LStrip(_)
LStrip(s) == IF s # <<>> /\ Head(s) = " " THEN LStrip(Tail(s)) ELSE s

RECURSIVE RStrip(_)
RStrip(s) == IF s # <<>> /\ s[Len(s)] = " " THEN RStrip(SubSeq(s, 1, Len(s) - 1)) ELSE s

\* str.strip()
Strip(s) == RStrip(LStrip(s))

\* chosen_name = base_name if base_name else action.name
ChosenName(basename, action_name) ==
    IF Strip(basename) # <<>> THEN Strip(basename) ELSE action_name

\* the items of the export_format property
Formats == {"PNG", "WEBP"}

\* file_ext = '.png' if export_format == 'PNG' else '.webp'
FileExt(fmt) == IF fmt = "PNG" THEN ".png" ELSE ".webp"

DigitChars == <<"0", "1", "2", "3", "4", "5", "6", "7", "8", "9">>

RECURSIVE Digits(_)
Digits(n) == IF n < 10 THEN <<DigitChars[n + 1]>> ELSE Digits(n \div 10) \o <<DigitChars[(n % 10) + 1]>>

RECURSIVE ZeroPad(_, _)
ZeroPad(d, w) == IF Len(d) >= w THEN d ELSE ZeroPad(<<"0">> \o d, w)

\* the {i:04d} of the frame file name
FormatIndex(i) == ZeroPad(Digits(i), 4)

DigitValue(c) == CHOOSE v \in 0..9 : DigitChars[v + 1] = c

RECURSIVE ParseInt(_)
ParseInt(d) == IF d = <<>> THEN 0 ELSE 10 * ParseInt(SubSeq(d, 1, Len(d) - 1)) + DigitValue(d[Len(d)])

\* the sort key int(x.split('_frame_')[1].split('.')[0]) of a frame file
SortKey(f) == ParseInt(f.digits)

\* start = max(action_start, start); end = min(action_end, end); swap if start > end
ClampRange(action_start, action_end, start_frame, end_frame) ==
    LET s == Max2(action_start, start_frame)
        e == Min2(action_end, end_frame)
    IN  IF s > e THEN <<e, s>> ELSE <<s, e>>

\* frames_to_export = list(range(start_frame, end_frame + 1))
FramesToExport(start_frame, end_frame) ==
    [k \in 1..(end_frame - start_frame + 1) |-> start_frame + k - 1]

RECURSIVE CeilSqrtFrom(_, _)
CeilSqrtFrom(n, c) == IF c * c >= n THEN c ELSE CeilSqrtFrom(n, c + 1)

RECURSIVE FloorSqrtFrom(_, _)
FloorSqrtFrom(n, c) == IF (c + 1) * (c + 1) > n THEN c ELSE FloorSqrtFrom(n, c + 1)

GridColsFloor(n) == FloorSqrtFrom(n, 1)

\* cols = int(math.ceil(math.sqrt(desired_frames)))
GridCols(n) == CeilSqrtFrom(n, 0)

\* rows = int(math.ceil(desired_frames / cols))
GridRows(n, cols) == (n + cols - 1) \div cols

-----------------------------------------------------------------------------
(* Files and the temporary directory *)

\* os.path.join(output_dir, f"{clean_name}_frame_{i:04d}{file_ext}") and its content
FrameFile(clean_name, i, file_ext, frame, run) ==
    [name |-> clean_name, digits |-> FormatIndex(i), ext |-> file_ext,
     frame |-> frame, run |-> run]

SamePath(f, g) == f.name = g.name /\ f.digits = g.digits /\ f.ext = g.ext

\* the render writes (or overwrites) the file at scene.render.filepath
WriteFile(files, f) == {g \in files : ~SamePath(g, f)} \cup {f}

\* a '/' in the name makes os.path.join address a file in a sub-directory
InSubdir(name) == "/" \in Range(name)

\* [f for f in os.listdir(temp_dir) if f.lower().endswith(file_ext)]
AllFiles(files, file_ext) == {f \in files : ~InSubdir(f.name) /\ f.ext = file_ext}

RECURSIVE Perms(_)
Perms(S) == IF S = {} THEN {<<>>}
            ELSE UNION {{<<x>> \o p : p \in Perms(S \ {x})} : x \in S}

\* sorted(all_files, key=...): a stable sort of a listing whose order the OS chooses
RECURSIVE SortedListings(_)
SortedListings(S) ==
    IF S = {} THEN {<<>>}
    ELSE LET k == CHOOSE m \in {SortKey(f) : f \in S} : \A f \in S : m <= SortKey(f)
             G == {f \in S : SortKey(f) = k}
         IN  {p \o q : p \in Perms(G), q \in SortedListings(S \ G)}

RECURSIVE SubsetsUpTo(_, _)
SubsetsUpTo(S, k) ==
    IF k = 0 THEN {{}}
    ELSE LET P == SubsetsUpTo(S, k - 1) IN P \cup {p \cup {x} : p \in P, x \in S}

-----------------------------------------------------------------------------
(* Records *)

NoCall == [animation_name |-> <<>>, output_dir |-> "none", action_start |-> 0,
           action_end |-> 0, start_frame |-> 0, end_frame |-> 0, i |-> 0,
           export_format |-> "PNG", base_name_override |-> <<>>,
           req_start |-> 0, req_end |-> 0, entry_format |-> ""]

NoSheet == [start_f |-> 0, end_f |-> 0, desired_frames |-> 0, cols |-> 0, rows |-> 0,
            max_frames |-> 0, clean_name |-> <<>>, file_ext |-> ".png", size |-> 0]

NoImage == [written |-> FALSE, path |-> "none", name |-> <<>>, rows |-> 0, cols |-> 0,
            ext |-> ".png", width |-> 0, height |-> 0, pastes |-> {}]

NoRes == [status |-> "NONE", reports |-> <<>>, frame_count |-> 0, returned |-> FALSE,
          tempCreated |-> FALSE, listed |-> FALSE, frame_files |-> <<>>,
          written |-> <<>>, sheet |-> NoImage, error |-> "", no_target |-> FALSE,
          io |-> <<>>]

NoAction == [name |-> <<>>, fs |-> 0, fe |-> 0]

Report(level, text) == [level |-> level, text |-> text]

\* except Exception as e: self.report({'ERROR'}, ...); return {'CANCELLED'}
Failed(r) == [r EXCEPT !.status = "CANCELLED",
                       !.reports = Append(@, Report("ERROR", "Export failed"))]

\* the exception leaves export_animation_frames when no operator wraps the call
Raised(r) == [r EXCEPT !.status = "RAISED"]

\* raise Exception(text), as the caller sees it
Raise(caller, r, text) == IF caller = "call" THEN Raised([r EXCEPT !.error = text])
                          ELSE Failed([r EXCEPT !.error = text])

-----------------------------------------------------------------------------
(* Camera and bounds.  A length is an integer number of 1/Unit-ths of a     *)
(* Blender unit, so that /2, /100, *2.5, *0.7 and *1.2 are exact; a vector  *)
(* is a triple <<x, y, z>> and a bounding box is [min, max].                *)

Unit == 2 * 100 * 10 * 10

Vec(x, y, z) == <<x * Unit, y * Unit, z * Unit>>

Box(lo, hi) == [min |-> lo, max |-> hi]

VAdd(a, b) == [i \in 1..3 |-> a[i] + b[i]]

VSub(a, b) == [i \in 1..3 |-> a[i] - b[i]]

\* center = (min_coords[i] + max_coords[i]) / 2
BoundsCenter(b) == [i \in 1..3 |-> (b.min[i] + b.max[i]) \div 2]

\* size = max(max_coords[i] - min_coords[i] for i in range(3))
BoundsSize(b) ==
    Max2(Max2(b.max[1] - b.min[1], b.max[2] - b.min[2]), b.max[3] - b.min[3])

\* get_static_bounds: the box of the target in the pose it is in when called
GetStaticBounds(bbox) == [center |-> BoundsCenter(bbox), size |-> BoundsSize(bbox)]

PaddedAdditive(size, padding_enabled, padding_percent) ==
    IF padding_enabled THEN size + padding_percent * (Unit \div 100) ELSE size

\* if padding_enabled: size *= (1 + padding_percent / 100)
Padded(size, padding_enabled, padding_percent) ==
    IF padding_enabled THEN (size * (100 + padding_percent)) \div 100 ELSE size

DistanceTwice(size) == size * 2

\* distance = size * 2.5
Distance(size) == (size * 25) \div 10

\* distance * 0.7
Iso(distance) == (distance * 7) \div 10

OrthoScaleAsDistance(size) == Distance(size)

\* camera.data.ortho_scale = size * 1.2
OrthoScale(size) == (size * 12) \div 10

\* cos and sin of math.radians(angle_deg) at the quarter turns
CosDeg(d) == CASE d = 0 -> 1 [] d = 90 -> 0 [] d = -90 -> 0 [] OTHER -> -1

SinDeg(d) == CASE d = 90 -> 1 [] d = -90 -> -1 [] OTHER -> 0

\* mathutils.Matrix.Rotation(angle_rad, 4, axis) @ offset
Rotate(axis, d, v) ==
    IF axis = "Z"
    THEN <<v[1] * CosDeg(d) - v[2] * SinDeg(d), v[1] * SinDeg(d) + v[2] * CosDeg(d), v[3]>>
    ELSE <<v[1], v[2] * CosDeg(d) - v[3] * SinDeg(d), v[2] * SinDeg(d) + v[3] * CosDeg(d)>>

\* angle_map = {'FRONT': 'Front', 'ISO': 'Isometric', 'SIDE': 'Side', 'CUSTOM': 'Custom'}
AngleMap(camera_angle) ==
    CASE camera_angle = "FRONT" -> "Front"
      [] camera_angle = "ISO" -> "Isometric"
      [] camera_angle = "SIDE" -> "Side"
      [] OTHER -> "Custom"

\* the offset of the Custom preset: base location by orientation, rotated by angle_deg
CustomOffset(distance, orientation, angle_deg) ==
    IF orientation = "SIDE" THEN Rotate("Z", angle_deg, <<distance, 0, 0>>)
    ELSE IF orientation = "UP" THEN Rotate("X", angle_deg, <<0, 0, distance>>)
    ELSE Rotate("X", angle_deg, <<0, 0, 0 - distance>>)

SideOffsetBehind(distance) == <<0 - distance, 0, 0>>

\* elif angle_type == "Side": camera.location = (center.x + distance, center.y, center.z)
SideOffset(distance) == <<distance, 0, 0>>

\* camera.location - center as setup_camera places it
CameraOffset(angle_type, distance, orientation, angle_deg) ==
    CASE angle_type = "Front" -> <<0, 0 - distance, 0>>
      [] angle_type = "Isometric" -> <<Iso(distance), 0 - Iso(distance), Iso(distance)>>
      [] angle_type = "Side" -> SideOffset(distance)
      [] OTHER -> CustomOffset(distance, orientation, angle_deg)

NoCamera == [exists |-> FALSE, location |-> <<0, 0, 0>>, direction |-> <<0, 0, 0>>,
             type |-> "PERSP", ortho_scale |-> 0]

\* setup_camera: a new camera placed from the static bounds, aimed at their center
SetupCamera(bbox, angle_type, padding_enabled, padding_percent, orientation, angle_deg) ==
    LET b == GetStaticBounds(bbox)
        size == Padded(b.size, padding_enabled, padding_percent)
        distance == Distance(size)
        location == VAdd(b.center, CameraOffset(angle_type, distance, orientation, angle_deg))
    IN  [exists |-> TRUE, location |-> location, direction |-> VSub(b.center, location),
         type |-> "ORTHO", ortho_scale |-> OrthoScale(size)]

\* the location setup_flip_modifier gives the camera
FlipLocation(camera, bbox, angle_type) ==
    LET center == BoundsCenter(bbox)
        distance == Distance(BoundsSize(bbox))
    IN  CASE angle_type = "Front" -> VAdd(center, <<0, distance, 0>>)
          [] angle_type = "Isometric" ->
                VAdd(center, <<0 - Iso(distance), Iso(distance), Iso(distance)>>)
          [] angle_type = "Side" -> VAdd(center, <<0 - distance, 0, 0>>)
          [] OTHER -> VSub(center, VSub(camera.location, center))

\* setup_flip_modifier
SetupFlipModifier(camera, flip_enabled, bbox, angle_type) ==
    IF flip_enabled /\ camera.exists
    THEN [camera EXCEPT !.location = FlipLocation(camera, bbox, angle_type),
                        !.direction = VSub(BoundsCenter(bbox),
                                           FlipLocation(camera, bbox, angle_type))]
    ELSE camera

\* the point the camera is aimed at
LookAt(camera) == VAdd(camera.location, camera.direction)

\* the world bounding box of the target when the scene is at a frame of an action: a
\* rigid target keeps its rest box, a deforming one reaches higher frame by frame
PoseBox(rest, deforms, frame) ==
    IF deforms THEN [rest EXCEPT !.max[3] = @ + frame * Unit] ELSE rest

\* no direct camera call made yet
NoCam == [placed |-> NoCamera, flips |-> 0]

\* no analyze_animation_bounds call made yet
NoAn == [stage |-> "none", animation_name |-> <<>>, frame_start |-> 0, frame_end |-> 0,
         step |-> 0, frame |-> 0, samples |-> <<>>, all_min |-> <<>>, all_max |-> <<>>,
         center |-> <<0, 0, 0>>, size |-> 0]

-----------------------------------------------------------------------------
(* export_animation_frames *)

\* the body up to the loop: range clamping and the call's locals
EnterExport(act, output_dir, start_frame, end_frame, export_format, base_name_override) ==
    LET r == ClampRange(act.fs, act.fe, start_frame, end_frame)
    IN  [animation_name |-> act.name, output_dir |-> output_dir,
         action_start |-> act.fs, action_end |-> act.fe,
         start_frame |-> r[1], end_frame |-> r[2], i |-> 0,
         export_format |-> export_format, base_name_override |-> base_name_override,
         req_start |-> start_frame, req_end |-> end_frame,
         entry_format |-> scene.render_format]

CallFrames(c) == FramesToExport(c.start_frame, c.end_frame)

FrameNumIsIndex(frames, i) == i

\* for i, frame_num in enumerate(frames_to_export): frame_set(frame_num)
FrameNum(frames, i) == frames[i + 1]

\* the index {i:04d} put in the file name of loop iteration i
FileIndex(i) == i

\* name_source = base_name_override if base_name_override else animation_name
NameSource(c) == IF c.base_name_override # <<>> THEN c.base_name_override
                 ELSE c.animation_name

ExportReturnSpan(frames) == frames[Len(frames)] - frames[1]

\* return len(frames_to_export)
ExportReturn(frames) == Len(frames)

\* scene.frame_current: the frame of the last frame_set
SceneFrame(ev) ==
    LET ks == {k \in 1..Len(ev) : ev[k].kind = "frame_set"}
    IN  IF ks = {} THEN 0
        ELSE ev[CHOOSE k \in ks : \A j \in ks : j <= k].frame

RenderOutcomes == IF faults THEN {"ok", "raise"} ELSE {"ok"}

NoRestore(original_format, export_format) == export_format

\* bpy.context.scene.render.image_settings.file_format = original_format
RestoreFormat(original_format, export_format) == original_format

Event(kind, frame, index, original_format, file_format) ==
    [kind |-> kind, frame |-> frame, index |-> index,
     original_format |-> original_format, file_format |-> file_format]

\* lines 335-337: setup_camera with the padding of the properties, then
\* setup_flip_modifier, both on the box of the pose the target is in
ExportCamera(bbox, camera_angle, flip_animation) ==
    SetupFlipModifier(
        SetupCamera(bbox, camera_angle, props.camera_padding_enabled,
                    props.camera_padding_percent, props.custom_orientation,
                    props.custom_camera_deg),
        flip_animation, bbox, camera_angle)

\* one iteration of the loop: frame_set, file name, set the render format, render
\* (which may raise: the format is then not restored, and the operator's except
\* clause reports and returns CANCELLED), restore the render format
ExportFrame ==
    /\ pc = "export"
    /\ call.i < Len(CallFrames(call))
    /\ \E outcome \in RenderOutcomes :
        LET frames == CallFrames(call)
            ev1 == Append(events, Event("frame_set", FrameNum(frames, call.i), -1, "", ""))
            posed == [scene EXCEPT !.bbox = PoseBox(scene.rest, scene.deforms, SceneFrame(ev1))]
            f == FrameFile(CleanName(NameSource(call)), FileIndex(call.i),
                           FileExt(call.export_format), SceneFrame(ev1), runs)
            original_format == scene.render_format
            ev2 == Append(ev1, Event("render", SceneFrame(ev1), FileIndex(call.i),
                                     original_format, call.export_format))
        IN  IF outcome = "ok"
            THEN /\ events' = ev2
                 /\ call' = [call EXCEPT !.i = @ + 1]
                 /\ res' = [res EXCEPT !.written = Append(@, f)]
                 /\ tempFiles' = IF call.output_dir = "temp" THEN WriteFile(tempFiles, f)
                                 ELSE tempFiles
                 /\ scene' = [posed EXCEPT !.render_format =
                                RestoreFormat(original_format, call.export_format)]
                 /\ pc' = "export"
            ELSE /\ events' = ev1
                 /\ call' = call
                 /\ res' = Raise(op, res, "render")
                 /\ tempFiles' = tempFiles
                 /\ scene' = [posed EXCEPT !.render_format = call.export_format]
                 /\ pc' = "idle"
    /\ UNCHANGED <<pil, props, actions, runs, op, sh, tempExists, faults, cam, an>>

-----------------------------------------------------------------------------
(* ANIM_OT_export_frames.execute *)

ActionChoice == IF actions = {} THEN {NoAction} ELSE actions

FramesExecute ==
    /\ pc = "idle"
    /\ runs < MaxRuns
    /\ runs' = runs + 1
    /\ op' = "frames"
    /\ events' = <<>>
    /\ sh' = NoSheet
    /\ \E act \in ActionChoice, target \in BOOLEAN :
        IF actions = {}
        THEN /\ res' = [NoRes EXCEPT !.status = "CANCELLED",
                            !.reports = <<Report("ERROR", "No animations found")>>]
             /\ call' = NoCall
             /\ scene' = scene
             /\ pc' = "idle"
        ELSE IF ~props.has_output_path
        THEN /\ res' = [NoRes EXCEPT !.status = "CANCELLED",
                            !.reports = <<Report("ERROR", "Please set output path")>>]
             /\ call' = NoCall
             /\ scene' = scene
             /\ pc' = "idle"
        ELSE IF ~target
        THEN /\ res' = Raise("frames", [NoRes EXCEPT !.no_target = TRUE],
                              "No objects found")
             /\ call' = NoCall
             /\ scene' = scene
             /\ pc' = "idle"
        ELSE /\ res' = [NoRes EXCEPT !.status = "RUNNING"]
             /\ call' = EnterExport(act, "out", props.start_frame, props.end_frame,
                                    props.export_format,
                                    ChosenName(props.export_basename, act.name))
             /\ scene' = [scene EXCEPT !.camera =
                            ExportCamera(scene.bbox, AngleMap(props.camera_angle),
                                         props.flip_animation)]
             /\ pc' = "export"
    /\ UNCHANGED <<pil, props, actions, tempExists, tempFiles, faults, cam, an>>

\* frame_count = export_animation_frames(...); report INFO; return FINISHED
FramesReturn ==
    /\ pc = "export"
    /\ op = "frames"
    /\ call.i = Len(CallFrames(call))
    /\ res' = [res EXCEPT !.frame_count = ExportReturn(CallFrames(call)),
                          !.returned = TRUE,
                          !.status = "FINISHED",
                          !.reports = Append(@, Report("INFO", "Exported frames"))]
    /\ pc' = "idle"
    /\ UNCHANGED <<pil, props, actions, runs, op, call, sh, tempExists, tempFiles,
                   events, faults, scene, cam, an>>

-----------------------------------------------------------------------------
(* ANIM_OT_export_spritesheet.execute *)

\* the locals computed before the export call: name, extension, range, grid
SheetLocals(act) ==
    LET r == ClampRange(act.fs, act.fe, props.start_frame, props.end_frame)
        desired == r[2] - r[1] + 1
        cols == GridCols(desired)
        rows == GridRows(desired, cols)
    IN  [start_f |-> r[1], end_f |-> r[2], desired_frames |-> desired,
         cols |-> cols, rows |-> rows, max_frames |-> cols * rows,
         clean_name |-> CleanName(ChosenName(props.export_basename, act.name)),
         file_ext |-> FileExt(props.export_format), size |-> props.frame_size]

\* end_export = start_f + min(desired_frames, max_frames) - 1
EndExport(l) == l.start_f + Min2(l.desired_frames, l.max_frames) - 1

SheetExecute ==
    /\ pc = "idle"
    /\ runs < MaxRuns
    /\ runs' = runs + 1
    /\ op' = "sheet"
    /\ events' = <<>>
    /\ \E act \in ActionChoice, target \in BOOLEAN :
        IF actions = {}
        THEN /\ res' = [NoRes EXCEPT !.status = "CANCELLED",
                            !.reports = <<Report("ERROR", "No animations found")>>]
             /\ call' = NoCall
             /\ sh' = NoSheet
             /\ tempExists' = tempExists
             /\ scene' = scene
             /\ pc' = "idle"
        ELSE IF ~props.has_output_path
        THEN /\ res' = [NoRes EXCEPT !.status = "CANCELLED",
                            !.reports = <<Report("ERROR", "Please set output path")>>]
             /\ call' = NoCall
             /\ sh' = NoSheet
             /\ tempExists' = tempExists
             /\ scene' = scene
             /\ pc' = "idle"
        ELSE /\ tempExists' = TRUE
             /\ sh' = SheetLocals(act)
             /\ IF ~target
                THEN /\ res' = Raise("sheet", [NoRes EXCEPT !.tempCreated = TRUE,
                                                          !.no_target = TRUE],
                                      "No objects found")
                     /\ call' = NoCall
                     /\ scene' = scene
                     /\ pc' = "idle"
                ELSE /\ res' = [NoRes EXCEPT !.status = "RUNNING", !.tempCreated = TRUE]
                     /\ call' = EnterExport(act, "temp", SheetLocals(act).start_f,
                                            EndExport(SheetLocals(act)),
                                            props.export_format, <<>>)
                     /\ scene' = [scene EXCEPT !.camera =
                                    ExportCamera(scene.bbox, AngleMap(props.camera_angle),
                                                 props.flip_animation)]
                     /\ pc' = "export"
    /\ UNCHANGED <<pil, props, actions, tempFiles, faults, cam, an>>

PILOffsetTransposed(i, cols, size) == <<(i \div cols) * size, (i % cols) * size>>

\* PIL path: col = i % cols, row = i // cols, paste at (col * size, row * size)
PILOffset(i, cols, size) == <<(i % cols) * size, (i \div cols) * size>>

FallbackOffsetNoFlip(i, cols, rows, size) == <<(i % cols) * size, (i \div cols) * size>>

\* fallback path: dst_x = col * size, dst_y = (rows - 1 - row) * size in the pixel buffer
FallbackOffset(i, cols, rows, size) ==
    <<(i % cols) * size, (rows - 1 - (i \div cols)) * size>>

\* the buffer of a bpy image starts at its bottom row ("Place row 0 at top without
\* flipping the frame vertically"): distance of a block from the top of the saved image
ImageTop(dst_y, size, height) == height - size - dst_y

\* frame_files[:frame_count]
Taken(frame_files, frame_count) == SubSeq(frame_files, 1, Min2(frame_count, Len(frame_files)))

\* if frame_files and len(frame_files) >= frame_count
EnoughFrames(frame_files, frame_count) ==
    Len(frame_files) > 0 /\ Len(frame_files) >= frame_count

Paste(i, off, src) == [i |-> i, x |-> off[1], y |-> off[2], src |-> src]

\* the indices whose image is pasted by the PIL loop (a failed open is skipped)
PILPasted(taken, failed) == (0..(Len(taken) - 1)) \ failed

\* range(min(frame_count, len(frame_images), cols * rows))
FallbackPasted(frame_count, frame_images, cols, rows) ==
    0..(Min2(Min2(frame_count, Len(frame_images)), cols * rows) - 1)

OpenFailures(taken) ==
    IF faults THEN SubsetsUpTo(0..(Len(taken) - 1), MaxOpenFailures) ELSE {{}}

PackFaults == IF ~faults THEN {"none"}
              ELSE IF pil THEN {"none", "save"} ELSE {"none", "load", "save"}

\* a step of the packing code on the image of frame_files[i], or on the directory
IO(kind, i) == [kind |-> kind, i |-> i]

\* _PILImage.open(frame_path).convert('RGBA') for each taken file: open holds the file
\* until convert has loaded it, and the opened image is dropped when convert returns;
\* a failing open/convert leaves nothing behind (except: continue)
RECURSIVE PILOpens(_, _, _)
PILOpens(i, n, failed) ==
    IF i >= n THEN <<>>
    ELSE (IF i \in failed THEN <<IO("open_failed", i)>>
          ELSE <<IO("open", i), IO("release", i)>>) \o PILOpens(i + 1, n, failed)

\* img = bpy.data.images.load(frame_path); frame_images.append(img)
FallbackLoads(taken) == [k \in 1..Len(taken) |-> IO("load", k - 1)]

NoReleases(frame_images) == <<>>

\* for img in frame_images: bpy.data.images.remove(img)
FallbackReleases(frame_images) == [k \in 1..Len(frame_images) |-> IO("release", k - 1)]

\* the image I/O of the packing branch up to its save, and what follows a save that worked
PackIO(taken, failed, fault) ==
    IF pil
    THEN PILOpens(0, Len(taken), failed)
            \o (IF fault = "save" THEN <<IO("save_failed", -1)>> ELSE <<IO("save", -1)>>)
    ELSE IF fault = "load" THEN <<IO("load_failed", 0)>>
    ELSE IF fault = "save" THEN FallbackLoads(taken) \o <<IO("save_failed", -1)>>
    ELSE FallbackLoads(taken) \o <<IO("save", -1)>> \o FallbackReleases(taken)

\* shutil.rmtree(temp_dir)
Cleanup == <<IO("rmtree", -1)>>

\* everything after the export call returned: listing, sorting, packing, cleanup, report
SheetPack ==
    /\ pc = "export"
    /\ op = "sheet"
    /\ call.i = Len(CallFrames(call))
    /\ \E frame_files \in SortedListings(AllFiles(tempFiles, sh.file_ext)),
          fault \in PackFaults :
        LET frame_count == ExportReturn(CallFrames(call))
            taken == Taken(frame_files, frame_count)
            r1 == [res EXCEPT !.frame_count = frame_count, !.returned = TRUE,
                              !.listed = TRUE, !.frame_files = frame_files]
            img == [written |-> TRUE, path |-> IF pil THEN "pil" ELSE "fallback",
                    name |-> sh.clean_name, rows |-> sh.rows, cols |-> sh.cols,
                    ext |-> sh.file_ext, width |-> sh.cols * sh.size,
                    height |-> sh.rows * sh.size, pastes |-> {}]
        IN  \E failed \in OpenFailures(taken) :
            LET pastes ==
                    IF pil
                    THEN {Paste(i, PILOffset(i, sh.cols, sh.size), taken[i + 1]) :
                            i \in PILPasted(taken, failed)}
                    ELSE {Paste(i, FallbackOffset(i, sh.cols, sh.rows, sh.size), taken[i + 1]) :
                            i \in FallbackPasted(frame_count, taken, sh.cols, sh.rows)}
            IN  IF EnoughFrames(frame_files, frame_count) /\ fault # "none"
                THEN /\ res' = Raise("sheet", [r1 EXCEPT !.io = PackIO(taken, failed, fault)],
                                      fault)
                     /\ UNCHANGED <<tempExists, tempFiles>>
                ELSE /\ res' = [r1 EXCEPT
                            !.sheet = IF EnoughFrames(frame_files, frame_count)
                                      THEN [img EXCEPT !.pastes = pastes] ELSE NoImage,
                            !.io = (IF EnoughFrames(frame_files, frame_count)
                                    THEN PackIO(taken, failed, fault) ELSE <<>>) \o Cleanup,
                            !.status = "FINISHED",
                            !.reports = Append(@, Report("INFO", "Exported spritesheet"))]
                     /\ tempExists' = FALSE
                     /\ tempFiles' = {}
    /\ pc' = "idle"
    /\ UNCHANGED <<pil, props, actions, runs, op, call, sh, events, faults, scene, cam, an>>

-----------------------------------------------------------------------------
(* The pixels of a written sheet.  A pixel is <<r, g, b, a>>; an image of width w *)
(* is a function on 0 .. w*h-1, pixel (x, y) being at index y * w + x.            *)

Transparent == <<0, 0, 0, 0>>

\* what the render put at column x of row y (from the top) of frame file f: colour
\* channels that tell frames and positions apart, and an alpha that varies
FramePixel(f, x, y) ==
    <<10 * f.frame + f.run, x, y, ((f.frame + x + y) % 3) * 127>>

AlphaBlend(src, dst) ==
    [c \in 1..4 |-> (src[c] * src[4] + dst[c] * (255 - src[4])) \div 255]

\* sheet.paste(img, box) without a mask, and pixels[dst_idx + c] = frame_pixels[src_idx + c]
\* for the four channels: the source pixel replaces the destination pixel
Overwrite(src, dst) == src

\* _PILImage.new('RGBA', (w, h)) and [0.0, 0.0, 0.0, 0.0] * (w * h)
BlankImage(w, h) == [q \in 0..(w * h - 1) |-> Transparent]

\* sheet.paste(img, (x_offset, y_offset)): rows of a PIL image run from the top
PILPaste(sheet, w, size, p) ==
    [q \in DOMAIN sheet |->
        LET x == (q % w) - p.x
            y == (q \div w) - p.y
        IN  IF 0 <= x /\ x < size /\ 0 <= y /\ y < size
            THEN Overwrite(FramePixel(p.src, x, y), sheet[q])
            ELSE sheet[q]]

\* img.pixels.foreach_get(frame_pixels): rows of a bpy image run from the bottom
FramePixels(f, size) ==
    [q \in 0..(size * size - 1) |-> FramePixel(f, q % size, size - 1 - (q \div size))]

\* the loops over y and x of the fallback path, with their index guard
FallbackCopy(pixels, w, size, p) ==
    LET frame_pixels == FramePixels(p.src, size)
    IN  [q \in DOMAIN pixels |->
            LET x == (q % w) - p.x
                y == (q \div w) - p.y
                src_idx == y * size + x
                dst_idx == (p.y + y) * w + p.x + x
            IN  IF 0 <= x /\ x < size /\ 0 <= y /\ y < size
                    /\ dst_idx \in DOMAIN pixels /\ src_idx \in DOMAIN frame_pixels
                THEN Overwrite(frame_pixels[src_idx], pixels[q])
                ELSE pixels[q]]

\* the packing loop over the pasted frames in the order of their index
RECURSIVE Composite(_, _, _, _, _)
Composite(pixels, w, size, pastes, path) ==
    IF pastes = {} THEN pixels
    ELSE LET p == CHOOSE m \in pastes : \A o \in pastes : m.i <= o.i
         IN  Composite(IF path = "pil" THEN PILPaste(pixels, w, size, p)
                       ELSE FallbackCopy(pixels, w, size, p),
                       w, size, pastes \ {p}, path)

\* the pixel buffer written to the sheet file
SheetPixels(img, size) ==
    Composite(BlankImage(img.width, img.height), img.width, size, img.pastes, img.path)

\* the pixel at column x of row y, counted from the top, of the saved sheet
SavedPixel(img, size, x, y) ==
    IF img.path = "pil" THEN SheetPixels(img, size)[y * img.width + x]
    ELSE SheetPixels(img, size)[(img.height - 1 - y) * img.width + x]

-----------------------------------------------------------------------------
(* export_animation_frames called directly, with arguments of the caller's choice *)

\* an optional argument: <<>> is None, <<v>> is the value v
OrDefault(arg, default) == IF arg = <<>> THEN default ELSE arg[1]

\* bpy.data.actions.get(animation_name)
LookupAction(animation_name) ==
    IF \E a \in actions : a.name = animation_name
    THEN CHOOSE a \in actions : a.name = animation_name
    ELSE NoAction

MissingActionIgnored(action) == FALSE

\* if not action
MissingAction(action) == action = NoAction

\* animation names a caller may pass: those of the actions and one that no action has
CallNames == {a.name : a \in actions} \cup {<<"n", "o">>}

\* frame arguments a caller may pass: None, the first frame, a frame past every action
CallFrameArgs == {<<>>, <<1>>, <<MaxFrame + 1>>}

\* lines 330-362, up to the loop
ExportCall ==
    /\ pc = "idle"
    /\ runs < MaxRuns
    /\ runs' = runs + 1
    /\ op' = "call"
    /\ events' = <<>>
    /\ sh' = NoSheet
    /\ \E animation_name \in CallNames, target \in BOOLEAN,
          start_frame \in CallFrameArgs, end_frame \in CallFrameArgs,
          export_format \in Formats :
        LET action == LookupAction(animation_name)
            flip_animation == FALSE
            asked == [NoCall EXCEPT !.animation_name = animation_name,
                                    !.export_format = export_format]
        IN  IF ~target
            THEN /\ res' = Raise("call", [NoRes EXCEPT !.no_target = TRUE],
                                  "No objects found")
                 /\ call' = asked
                 /\ scene' = scene
                 /\ pc' = "idle"
            ELSE /\ scene' = [scene EXCEPT !.camera =
                                ExportCamera(scene.bbox, "Front", flip_animation)]
                 /\ IF MissingAction(action)
                    THEN /\ res' = Raise("call", NoRes, "Animation not found")
                         /\ call' = asked
                         /\ pc' = "idle"
                    ELSE /\ res' = [NoRes EXCEPT !.status = "RUNNING"]
                         /\ call' = EnterExport(action, "out",
                                                OrDefault(start_frame, action.fs),
                                                OrDefault(end_frame, action.fe),
                                                export_format, <<>>)
                         /\ pc' = "export"
    /\ UNCHANGED <<pil, props, actions, tempExists, tempFiles, faults, cam, an>>

\* return len(frames_to_export) to the caller
CallReturn ==
    /\ pc = "export"
    /\ op = "call"
    /\ call.i = Len(CallFrames(call))
    /\ res' = [res EXCEPT !.frame_count = ExportReturn(CallFrames(call)),
                          !.returned = TRUE,
                          !.status = "RETURNED"]
    /\ pc' = "idle"
    /\ UNCHANGED <<pil, props, actions, runs, op, call, sh, tempExists, tempFiles,
                   events, faults, scene, cam, an>>

-----------------------------------------------------------------------------
(* setup_camera and setup_flip_modifier called directly on the target *)

\* setup_camera(target, angle, None, padding_enabled, padding_percent)
SetupCameraCall ==
    /\ pc = "idle"
    /\ ~scene.camera.exists
    /\ LET camera == SetupCamera(scene.bbox, AngleMap(props.camera_angle),
                                 props.camera_padding_enabled, props.camera_padding_percent,
                                 props.custom_orientation, props.custom_camera_deg)
       IN  /\ scene' = [scene EXCEPT !.camera = camera]
           /\ cam' = [placed |-> camera, flips |-> 0]
    /\ UNCHANGED <<pil, props, actions, runs, pc, op, call, sh, tempExists, tempFiles,
                   events, res, faults, an>>

\* setup_flip_modifier(True, target, angle) on the camera of the scene
SetupFlipCall ==
    /\ pc = "idle"
    /\ scene.camera.exists
    /\ cam.flips < MaxFlips
    /\ scene' = [scene EXCEPT !.camera =
                    SetupFlipModifier(scene.camera, TRUE, scene.bbox,
                                      AngleMap(props.camera_angle))]
    /\ cam' = [cam EXCEPT !.flips = @ + 1]
    /\ UNCHANGED <<pil, props, actions, runs, pc, op, call, sh, tempExists, tempFiles,
                   events, res, faults, an>>

-----------------------------------------------------------------------------
(* analyze_animation_bounds *)

AnalyzeStepOne(frame_start, frame_end) == 1

\* step = max(1, (frame_end - frame_start) // 20)
AnalyzeStep(frame_start, frame_end) == Max2(1, (frame_end - frame_start) \div 20)

\* all_min_coords[i] = min(all_min_coords[i], frame_min[i]), starting from +inf
FoldMin(acc, v) == IF acc = <<>> THEN v ELSE [i \in 1..3 |-> Min2(acc[i], v[i])]

\* all_max_coords[i] = max(all_max_coords[i], frame_max[i]), starting from -inf
FoldMax(acc, v) == IF acc = <<>> THEN v ELSE [i \in 1..3 |-> Max2(acc[i], v[i])]

\* lines 387-398: look the action up; without it return the static bounds
AnalyzeCall ==
    /\ pc = "idle"
    /\ an.stage = "none"
    /\ \E animation_name \in CallNames :
        LET action == LookupAction(animation_name)
            b == GetStaticBounds(scene.bbox)
        IN  IF MissingAction(action)
            THEN an' = [NoAn EXCEPT !.stage = "done", !.animation_name = animation_name,
                                    !.center = b.center, !.size = b.size]
            ELSE an' = [NoAn EXCEPT !.stage = "loop", !.animation_name = animation_name,
                                    !.frame_start = action.fs, !.frame_end = action.fe,
                                    !.step = AnalyzeStep(action.fs, action.fe),
                                    !.frame = action.fs]
    /\ UNCHANGED <<pil, props, actions, runs, pc, op, call, sh, tempExists, tempFiles,
                   events, res, faults, scene, cam>>

\* one iteration of for frame in range(frame_start, frame_end + 1, step)
AnalyzeFrame ==
    /\ an.stage = "loop"
    /\ an.frame <= an.frame_end
    /\ LET bbox == PoseBox(scene.rest, scene.deforms, an.frame)
       IN  /\ scene' = [scene EXCEPT !.bbox = bbox]
           /\ an' = [an EXCEPT !.samples = Append(@, an.frame),
                               !.all_min = FoldMin(@, bbox.min),
                               !.all_max = FoldMax(@, bbox.max),
                               !.frame = @ + an.step]
    /\ UNCHANGED <<pil, props, actions, runs, pc, op, call, sh, tempExists, tempFiles,
                   events, res, faults, cam>>

\* lines 411-417: center and size of the union box, padding, return
AnalyzeReturn ==
    /\ an.stage = "loop"
    /\ an.frame > an.frame_end
    /\ LET all == Box(an.all_min, an.all_max)
       IN  an' = [an EXCEPT !.stage = "done", !.center = BoundsCenter(all),
                            !.size = Padded(BoundsSize(all), props.camera_padding_enabled,
                                            props.camera_padding_percent)]
    /\ UNCHANGED <<pil, props, actions, runs, pc, op, call, sh, tempExists, tempFiles,
                   events, res, faults, scene, cam>>

-----------------------------------------------------------------------------
(* Specifications *)

FrameSizes == {64, 128}

DefaultProps == [start_frame |-> 1, end_frame |-> 1, export_format |-> "PNG",
                 frame_size |-> 512, export_basename |-> <<>>, auto_grid |-> TRUE,
                 sprite_columns |-> 4, sprite_rows |-> 4, has_output_path |-> FALSE,
                 camera_angle |-> "SIDE", flip_animation |-> TRUE,
                 camera_padding_enabled |-> FALSE, camera_padding_percent |-> 20,
                 custom_orientation |-> "SIDE", custom_camera_deg |-> 0]

\* the box of the target at rest
RestBox == Box(Vec(-1, -1, 0), Vec(1, 1, 2))

\* a scene whose target is in its rest pose, before any camera was set up
SceneOf(rest, deforms, render_format) ==
    [render_format |-> render_format, camera |-> NoCamera, bbox |-> rest,
     rest |-> rest, deforms |-> deforms]

InitScene(PropsSet, ActionSets, FaultSet, PilSet, SceneSet) ==
    /\ pil \in PilSet
    /\ props \in PropsSet
    /\ actions \in ActionSets
    /\ faults \in FaultSet
    /\ scene \in SceneSet
    /\ runs = 0
    /\ pc = "idle"
    /\ op = "none"
    /\ call = NoCall
    /\ sh = NoSheet
    /\ tempExists = FALSE
    /\ tempFiles = {}
    /\ events = <<>>
    /\ res = NoRes
    /\ cam = NoCam
    /\ an = NoAn

\* a rigid target and the host's default render format
InitWith(PropsSet, ActionSets, FaultSet, PilSet) ==
    InitScene(PropsSet, ActionSets, FaultSet, PilSet, {SceneOf(RestBox, FALSE, "PNG")})

Next == FramesExecute \/ SheetExecute \/ ExportFrame \/ FramesReturn \/ SheetPack

\* the operators' life cycle over a persistent output directory: three actions
\* with different names, short ranges, failing renders and image I/O
SceneActions == {[name |-> <<"w">>, fs |-> 1, fe |-> MaxFrame],
                 [name |-> <<"i", ":">>, fs |-> 2, fe |-> MaxFrame],
                 [name |-> <<"d", "/", "r">>, fs |-> 1, fe |-> 2]}

MainProps == {[DefaultProps EXCEPT !.start_frame = s, !.end_frame = e,
                                   !.export_format = f, !.frame_size = 64,
                                   !.has_output_path = o] :
                s \in 1..(MaxFrame + 1), e \in 1..(MaxFrame + 1), f \in Formats,
                o \in BOOLEAN}

\* the render format the scene has before the first export
SceneFormats == {"PNG", "JPEG"}

Init == InitScene(MainProps, {SceneActions, {}}, {TRUE}, BOOLEAN,
                  {SceneOf(RestBox, FALSE, f) : f \in SceneFormats})

Spec == Init /\ [][Next]_vars

\* export_animation_frames over every native range and every requested range up to
\* MaxRangeFrame, with a host that does not fail
RangeActions == {{[name |-> <<"w">>, fs |-> r[1], fe |-> r[2]]} :
                    r \in {q \in (1..MaxRangeFrame) \X (1..MaxRangeFrame) : q[1] <= q[2]}}

RangeProps == {[DefaultProps EXCEPT !.start_frame = s, !.end_frame = e, !.frame_size = 64,
                                    !.has_output_path = TRUE] :
                s \in 1..(MaxRangeFrame + 1), e \in 1..(MaxRangeFrame + 1)}

InitRange == InitWith(RangeProps, RangeActions, {FALSE}, {TRUE})

SpecRange == InitRange /\ [][Next]_vars

\* direct calls of export_animation_frames: present and missing target, present and
\* missing animation, given and defaulted frame arguments
NextCall == ExportCall \/ ExportFrame \/ CallReturn

CallProps == {[DefaultProps EXCEPT !.has_output_path = TRUE]}

InitCall == InitScene(CallProps, {SceneActions}, BOOLEAN, {TRUE},
                      {SceneOf(RestBox, FALSE, f) : f \in SceneFormats})

SpecCall == InitCall /\ [][NextCall]_vars

\* the operators on a target whose bounding box follows its pose, and on a rigid one,
\* under every camera preset, with and without flip and padding
CameraAngles == {"FRONT", "ISO", "SIDE", "CUSTOM"}

PoseProps == {[DefaultProps EXCEPT !.start_frame = 1, !.end_frame = MaxFrame,
                                   !.has_output_path = TRUE, !.camera_angle = a,
                                   !.flip_animation = f, !.camera_padding_enabled = e] :
                a \in CameraAngles, f \in BOOLEAN, e \in BOOLEAN}

InitPose == InitScene(PoseProps, {SceneActions}, {FALSE}, {TRUE},
                      {SceneOf(RestBox, d, "PNG") : d \in BOOLEAN})

SpecPose == InitPose /\ [][Next]_vars

\* setup_camera and setup_flip_modifier on boxes of different size and position, under
\* every preset, without padding and with every padding percentage
NextCamera == SetupCameraCall \/ SetupFlipCall

TargetBoxes == {RestBox, Box(Vec(-2, -2, 0), Vec(2, 2, 4)),
                Box(Vec(1, 0, 0), Vec(2, 3, 1)), Box(Vec(0, 0, 0), Vec(6, 2, 2))}

CustomOrientations == {"SIDE", "UP"}

\* the quarter turns of custom_camera_deg
CustomDegrees == {-180, -90, 0, 90, 180}

PaddingPercents == MinPaddingPercent..MaxPaddingPercent

CameraProps ==
    LET A == {[DefaultProps EXCEPT !.camera_angle = a] : a \in CameraAngles \ {"CUSTOM"}}
             \cup {[DefaultProps EXCEPT !.camera_angle = "CUSTOM",
                                        !.custom_orientation = o,
                                        !.custom_camera_deg = d] :
                        o \in CustomOrientations, d \in CustomDegrees}
    IN  A \cup {[q EXCEPT !.camera_padding_enabled = TRUE,
                          !.camera_padding_percent = n] : q \in A, n \in PaddingPercents}

InitCamera == InitScene(CameraProps, {SceneActions}, {FALSE}, {TRUE},
                        {SceneOf(b, FALSE, "PNG") : b \in TargetBoxes})

SpecCamera == InitCamera /\ [][NextCamera]_vars

\* analyze_animation_bounds over every frame range that starts at 1 or 2 and ends by
\* MaxAnalyzeFrame, and for a name no action has
NextBounds == AnalyzeCall \/ AnalyzeFrame \/ AnalyzeReturn

AnalyzeActions == {{[name |-> <<"w">>, fs |-> r[1], fe |-> r[2]]} :
                    r \in {q \in (1..2) \X (1..MaxAnalyzeFrame) : q[1] <= q[2]}}

BoundsProps == {[DefaultProps EXCEPT !.camera_padding_enabled = e] : e \in BOOLEAN}

InitBounds == InitScene(BoundsProps, AnalyzeActions, {FALSE}, {TRUE},
                        {SceneOf(RestBox, d, "PNG") : d \in BOOLEAN})

SpecBounds == InitBounds /\ [][NextBounds]_vars

\* the sheet pixel by pixel: cells of 1..MaxPixelSize pixels (the frame sizes scaled
\* down so that every pixel is enumerated), up to MaxPixelFrames frames, both paths
PixelActions == {{[name |-> <<"w">>, fs |-> 1, fe |-> n]} : n \in 1..MaxPixelFrames}

PixelProps == {[DefaultProps EXCEPT !.start_frame = 1, !.end_frame = MaxPixelFrames,
                                    !.frame_size = z, !.export_format = f,
                                    !.has_output_path = TRUE] :
                z \in 1..MaxPixelSize, f \in Formats}

InitPixels == InitWith(PixelProps, PixelActions, BOOLEAN, BOOLEAN)

SpecPixels == InitPixels /\ [][Next]_vars

\* both operators on action names and export base names that hold each of the seven
\* replaced characters, other punctuation, surrounding blanks, or nothing to replace
NameActions == {[name |-> <<"W", "a", "l", "k", ":", "L", "o", "o", "p", "*">>,
                 fs |-> 1, fe |-> 2],
                [name |-> <<"a", "|", ":", "*", "?", "<", ">", "\"", "b">>, fs |-> 1, fe |-> 2],
                [name |-> <<"a", "_", "b", ".", "-">>, fs |-> 1, fe |-> 1]}

Basenames == {<<>>, <<" ">>, <<" ", "B", "?", "\"", " ">>}

NameProps == {[DefaultProps EXCEPT !.start_frame = 1, !.end_frame = 2,
                                   !.frame_size = 64, !.export_format = f,
                                   !.export_basename = b, !.has_output_path = TRUE] :
                f \in Formats, b \in Basenames}

InitNames == InitWith(NameProps, {NameActions}, {FALSE}, BOOLEAN)

SpecNames == InitNames /\ [][Next]_vars

\* the grid and the two packing paths for every frame count up to MaxGridFrame, in
\* auto grid mode and with the manual grid selected
GridActions == {{[name |-> <<"w">>, fs |-> 1, fe |-> n]} : n \in 1..MaxGridFrame}

ManualGrids == {<<2, 2>>, <<3, 2>>}

GridProps ==
    LET P == {[DefaultProps EXCEPT !.start_frame = 1, !.end_frame = MaxGridFrame,
                                   !.frame_size = z, !.has_output_path = TRUE] :
                z \in FrameSizes}
    IN  P \cup {[q EXCEPT !.auto_grid = FALSE, !.sprite_columns = g[1],
                          !.sprite_rows = g[2]] : q \in P, g \in ManualGrids}

InitGrid == InitWith(GridProps, GridActions, BOOLEAN, BOOLEAN)

SpecGrid == InitGrid /\ [][Next]_vars

-----------------------------------------------------------------------------
(* Properties *)

HasReport(level) == \E k \in 1..Len(res.reports) : res.reports[k].level = level

\* ANIM_OT_export_spritesheet.execute has returned
SheetDone == op = "sheet" /\ pc = "idle" /\ res.status \in {"FINISHED", "CANCELLED"}

RenderPos == {p \in 1..Len(events) : events[p].kind = "render"}

CaptureNo(p) == Cardinality({q \in RenderPos : q < p})

PathOf(f) == <<f.name, f.digits, f.ext>>

\* C1: when export-spritesheet finds fewer frame files in the temporary directory
\* than the frame export returned, no sheet is packed and the operator ends with an
\* ERROR report and CANCELLED, never with the INFO report and FINISHED.
C1_ShortfallSurfacesError ==
    (SheetDone /\ res.listed /\ Len(res.frame_files) < res.frame_count)
        => /\ ~res.sheet.written
           /\ HasReport("ERROR")
           /\ ~HasReport("INFO")
           /\ res.status = "CANCELLED"

\* C2: on every exit of export-spritesheet taken after the temporary directory was
\* created, the directory and the frame files in it no longer exist.
C2_TempRemovedOnEveryExit ==
    (SheetDone /\ res.tempCreated) => (~tempExists /\ tempFiles = {})

\* C3: every frame export_animation_frames renders lies inside the native range
\* [action_start, action_end], and the normalized range has start <= end.
C3_FramesInsideNativeRange ==
    call.output_dir # "none"
        => /\ call.start_frame <= call.end_frame
           /\ \A p \in RenderPos :
                call.action_start <= events[p].frame /\ events[p].frame <= call.action_end

C5_CaptureFollowsItsFrameSet ==
    \A p \in RenderPos :
        LET k == CaptureNo(p)
        IN  /\ p > 1
            /\ events[p - 1].kind = "frame_set"
            /\ events[p - 1].frame = call.start_frame + k
            /\ events[p].frame = call.start_frame + k
            /\ events[p].index = k
            /\ k < Len(res.written)
            /\ res.written[k + 1].frame = call.start_frame + k
            /\ ParseInt(res.written[k + 1].digits) = k
            /\ \A q \in RenderPos :
                /\ q < p => events[q].frame < events[p].frame
                /\ CaptureNo(q) + 1 = k => events[q].frame + 1 = events[p].frame

C5_Witness ==
    /\ Cardinality(RenderPos) >= 2
    /\ call.start_frame >= 2
    /\ pc = "idle"

\* C6: with auto_grid off, export-spritesheet builds a sheet of exactly
\* sprite_columns x sprite_rows cells and packs only the first
\* sprite_columns * sprite_rows frames of the sequence.
C6_ManualGridUsed ==
    (res.sheet.written /\ ~props.auto_grid)
        => /\ res.sheet.cols = props.sprite_columns
           /\ res.sheet.rows = props.sprite_rows
           /\ {p.i : p \in res.sheet.pastes}
                = 0..(Min2(sh.desired_frames, props.sprite_columns * props.sprite_rows) - 1)

\* C7: in auto mode, for every frame count n >= 1, columns = ceil(sqrt(n)) and
\* rows = ceil(n / columns); so columns * rows >= n, rows <= columns and fewer than
\* `columns` cells stay unfilled; 16 gives 4x4, 10 gives 4 columns and 3 rows, 1 gives 1x1.
C7_AutoGrid ==
    (op = "sheet" /\ sh.desired_frames >= 1 /\ props.auto_grid)
        => LET n == sh.desired_frames
               c == sh.cols
               r == sh.rows
           IN  /\ c >= 1 /\ c * c >= n /\ (c - 1) * (c - 1) < n
               /\ r >= 1 /\ r * c >= n /\ (r - 1) * c < n
               /\ r <= c
               /\ c * r - n < c
               /\ n = 16 => (c = 4 /\ r = 4)
               /\ n = 10 => (c = 4 /\ r = 3)
               /\ n = 1 => (c = 1 /\ r = 1)

C7_Witness ==
    /\ op = "sheet"
    /\ props.auto_grid
    /\ sh.desired_frames = 10
    /\ res.sheet.written
    /\ res.sheet.cols = 4
    /\ res.sheet.rows = 3

\* C8: whenever export-spritesheet writes a sheet, each of the frame_count frames of
\* the exported sequence is in it at its own cell (no partial sheet is written).
C8_NoPartialSheet ==
    res.sheet.written
        => \A i \in 0..(res.frame_count - 1) :
                \E p \in res.sheet.pastes : p.i = i /\ p.src = res.written[i + 1]

\* C9: in the PIL path frame i is pasted at (col * size, row * size) with
\* col = i % columns and row = i // columns, measured from the top-left corner; the
\* cells of different frames are distinct and every block lies inside the
\* columns*size by rows*size sheet.
C9_PILPlacement ==
    (res.sheet.written /\ res.sheet.path = "pil")
        => /\ res.sheet.width = sh.cols * sh.size
           /\ res.sheet.height = sh.rows * sh.size
           /\ \A p \in res.sheet.pastes :
                /\ p.i < res.frame_count
                /\ p.x = (p.i % sh.cols) * sh.size
                /\ p.y = (p.i \div sh.cols) * sh.size
                /\ 0 <= p.x /\ p.x + sh.size <= res.sheet.width
                /\ 0 <= p.y /\ p.y + sh.size <= res.sheet.height
                /\ \A q \in res.sheet.pastes :
                    p.i # q.i => (p.x + sh.size <= q.x \/ q.x + sh.size <= p.x
                                  \/ p.y + sh.size <= q.y \/ q.y + sh.size <= p.y)

C9_Witness ==
    /\ res.sheet.written
    /\ res.sheet.path = "pil"
    /\ sh.cols = 4
    /\ sh.rows = 3
    /\ Cardinality(res.sheet.pastes) = 10

\* C10 (as amended): in the fallback path the frame of cell (col, row) is written at
\* buffer offset (col * size, (rows - 1 - row) * size), which differs from the PIL
\* path's y offset row * size whenever row # rows - 1 - row; the buffer's rows run
\* bottom-up, so in the saved sheet the frame is row * size below the top, where the
\* PIL path puts it, and emission-order row 0 is the top row.
C10_FallbackPlacement ==
    (res.sheet.written /\ res.sheet.path = "fallback")
        => \A p \in res.sheet.pastes :
            LET col == p.i % sh.cols
                row == p.i \div sh.cols
            IN  /\ p.x = col * sh.size
                /\ p.y = (sh.rows - 1 - row) * sh.size
                /\ row # sh.rows - 1 - row => p.y # row * sh.size
                /\ ImageTop(p.y, sh.size, res.sheet.height) = row * sh.size

C10_Witness ==
    /\ res.sheet.written
    /\ res.sheet.path = "fallback"
    /\ sh.rows >= 2
    /\ \E p \in res.sheet.pastes :
        /\ p.i \div sh.cols = 0
        /\ p.y = (sh.rows - 1) * sh.size
        /\ p.y # 0

\* C10 as stated: the fallback path's offset puts emission-order row 0 at the bottom
\* of the sheet, so the fallback and the PIL path put frame i at different heights of
\* the sheet whenever row # rows - 1 - row.
C10_Original ==
    (res.sheet.written /\ res.sheet.path = "fallback")
        => \A p \in res.sheet.pastes :
            LET col == p.i % sh.cols
                row == p.i \div sh.cols
            IN  /\ p.x = col * sh.size
                /\ p.y = (sh.rows - 1 - row) * sh.size
                /\ row = 0 => ImageTop(p.y, sh.size, res.sheet.height)
                                = res.sheet.height - sh.size
                /\ row # sh.rows - 1 - row
                    => ImageTop(p.y, sh.size, res.sheet.height) # row * sh.size

\* C12: a call of export_animation_frames made when no eligible target object exists,
\* or naming an animation that bpy.data.actions does not hold, raises its error before
\* any frame is set or rendered and before any frame file is written.
C12_RaisesBeforeAnyRender ==
    (op = "call" /\ (res.no_target \/ call.animation_name \notin {a.name : a \in actions}))
        => /\ pc = "idle"
           /\ res.status = "RAISED"
           /\ res.error = (IF res.no_target THEN "No objects found"
                           ELSE "Animation not found")
           /\ ~res.returned
           /\ events = <<>>
           /\ res.written = <<>>

C12_Witness ==
    /\ op = "call"
    /\ runs = 2
    /\ call.animation_name \notin {a.name : a \in actions}
    /\ ~res.no_target
    /\ res.status = "RAISED"
    /\ scene.camera.exists

\* a render raised inside the loop of the running / last export call
RenderFailed == res.error = "render"

ErrorReports == {k \in 1..Len(res.reports) : res.reports[k].level = "ERROR"}

\* every output the operator was asked for exists: each frame of the normalized
\* range for export-frames, the sheet file for export-spritesheet
OutputsWritten ==
    IF op = "sheet" THEN res.sheet.written
    ELSE res.returned /\ Len(res.written) = Len(CallFrames(call))

\* C13: when a render fails at frame k no later frame is set or rendered and the
\* operator ends with exactly one ERROR report and CANCELLED; an operator ends with
\* FINISHED only when every output it was asked for was written.
C13_FailureCancelsFinishedMeansWritten ==
    /\ (op \in {"frames", "sheet"} /\ RenderFailed)
        => /\ pc = "idle"
           /\ events[Len(events)].kind = "frame_set"
           /\ \A p \in RenderPos : events[p].frame < events[Len(events)].frame
           /\ Cardinality(ErrorReports) = 1
           /\ res.status = "CANCELLED"
    /\ (op \in {"frames", "sheet"} /\ res.status = "FINISHED") => OutputsWritten

\* C14: directly after each completed capture the host's render format is the one it
\* had directly before that capture, the capture itself being made in the export
\* format; so when the export returns normally the render format is the one the
\* scene had when the export was called, for PNG as for WEBP.
C14_RenderFormatRestored ==
    /\ \A p \in RenderPos :
        /\ events[p].file_format = call.export_format
        /\ events[p].original_format = call.entry_format
        /\ p = Len(events) => scene.render_format = events[p].original_format
    /\ res.returned => scene.render_format = call.entry_format

C14_Witness ==
    /\ res.returned
    /\ call.export_format = "WEBP"
    /\ call.entry_format = "JPEG"
    /\ scene.render_format = "JPEG"
    /\ Cardinality(RenderPos) >= 2

MaxAbs(v) == Max2(Max2(Max2(v[1], 0 - v[1]), Max2(v[2], 0 - v[2])), Max2(v[3], 0 - v[3]))

\* how far the camera is from the point it is aimed at, along its longest axis
CameraDistance(camera) == MaxAbs(camera.direction)

\* what the first export of a session installs: the framing of the target at rest
RestFraming == ExportCamera(scene.rest, AngleMap(props.camera_angle), props.flip_animation)

\* C15: for a fixed target and fixed padding, the ortho scale and the distance of the
\* camera an export installs are the same for every animation exported and do not
\* depend on the exports made before it or on the pose they left the target in.
C15_FramingIndependentOfHistory ==
    scene.camera.exists
        => /\ scene.camera.ortho_scale = RestFraming.ortho_scale
           /\ CameraDistance(scene.camera) = CameraDistance(RestFraming)

\* C16: setup_flip_modifier with flip enabled is an involution for every preset
\* (Front, Side, Isometric, Custom): applied twice to a camera that setup_camera
\* placed, it leaves the camera where setup_camera put it.
C16_FlipIsInvolution ==
    (cam.placed.exists /\ cam.flips = 2) => scene.camera.location = cam.placed.location

\* largest extent of the box the camera was set up for
Extent == BoundsSize(scene.bbox)

Center == BoundsCenter(scene.bbox)

\* 100 + padding_percent when padding is enabled, 100 otherwise
PaddingFactor == IF props.camera_padding_enabled THEN 100 + props.camera_padding_percent
                 ELSE 100

\* C17 as amended: the ortho scale setup_camera installs is 1.2 times the padded size,
\* that is 1.2 * extent * (1 + padding_percent / 100) with padding enabled and
\* 1.2 * extent with padding disabled, so it grows with the padding percentage.
C17_OrthoScaleFollowsPadding ==
    cam.placed.exists
        => /\ 1000 * cam.placed.ortho_scale = 12 * Extent * PaddingFactor
           /\ props.camera_padding_enabled => 10 * cam.placed.ortho_scale > 12 * Extent

C17_Witness ==
    /\ cam.placed.exists
    /\ props.camera_padding_enabled
    /\ props.camera_padding_percent = 50
    /\ scene.bbox = RestBox
    /\ 10 * cam.placed.ortho_scale = 36 * Unit

\* C17 as stated: the ortho scale is 1.2 times the largest extent of the bound and is
\* the same with padding enabled or disabled and for every padding percentage.
C17_Original ==
    cam.placed.exists => 10 * cam.placed.ortho_scale = 12 * Extent

\* C19 as amended: for the box (-1,-1,0)..(1,1,2), preset Side, padding disabled,
\* setup_camera computes size 2 and distance 5 and places the camera at (5, 0, 1),
\* aimed at (0, 0, 1).
C19_SideExample ==
    (cam.placed.exists /\ scene.bbox = Box(Vec(-1, -1, 0), Vec(1, 1, 2))
        /\ props.camera_angle = "SIDE" /\ ~props.camera_padding_enabled)
        => /\ Extent = 2 * Unit
           /\ Center = Vec(0, 0, 1)
           /\ CameraDistance(cam.placed) = 5 * Unit
           /\ cam.placed.location = Vec(5, 0, 1)
           /\ LookAt(cam.placed) = Vec(0, 0, 1)

C19_Witness ==
    /\ cam.placed.exists
    /\ cam.flips = 0
    /\ scene.bbox = Box(Vec(-1, -1, 0), Vec(1, 1, 2))
    /\ props.camera_angle = "SIDE"
    /\ ~props.camera_padding_enabled
    /\ scene.camera.location = Vec(5, 0, 1)

\* C19 as stated: the camera is placed at (6, 0, 1).
C19_Original ==
    (cam.placed.exists /\ scene.bbox = Box(Vec(-1, -1, 0), Vec(1, 1, 2))
        /\ props.camera_angle = "SIDE" /\ ~props.camera_padding_enabled)
        => /\ cam.placed.location = Vec(6, 0, 1)
           /\ LookAt(cam.placed) = Vec(0, 0, 1)

\* the box scaled by two about the origin
DoubleBox(b) == Box([i \in 1..3 |-> 2 * b.min[i]], [i \in 1..3 |-> 2 * b.max[i]])

\* C20: setup_camera takes size = largest extent (times 1 + percent/100 with padding
\* enabled) and distance = 2.5 * size, and places the camera at center + (0,-d,0)
\* for Front, center + (d,0,0) for Side and center + (0.7d,-0.7d,0.7d) for Isometric;
\* doubling the size with the padding fixed doubles the distance and the ortho scale.
C20_CameraPlacement ==
    cam.placed.exists
        => LET d == (25 * Extent * PaddingFactor) \div 1000
               off == VSub(cam.placed.location, Center)
               twice == SetupCamera(DoubleBox(scene.bbox), AngleMap(props.camera_angle),
                                    props.camera_padding_enabled,
                                    props.camera_padding_percent,
                                    props.custom_orientation, props.custom_camera_deg)
           IN  /\ 1000 * d = 25 * Extent * PaddingFactor
               /\ props.camera_angle = "FRONT" => off = <<0, 0 - d, 0>>
               /\ props.camera_angle = "SIDE" => off = <<d, 0, 0>>
               /\ props.camera_angle = "ISO"
                    => [i \in 1..3 |-> 10 * off[i]] = <<7 * d, 0 - 7 * d, 7 * d>>
               /\ LookAt(cam.placed) = Center
               /\ CameraDistance(twice) = 2 * CameraDistance(cam.placed)
               /\ twice.ortho_scale = 2 * cam.placed.ortho_scale

C20_Witness ==
    /\ cam.placed.exists
    /\ props.camera_angle = "ISO"
    /\ props.camera_padding_enabled
    /\ props.camera_padding_percent = 20
    /\ scene.bbox = Box(Vec(1, 0, 0), Vec(2, 3, 1))
    /\ CameraDistance(cam.placed) = 63 * (Unit \div 10)

\* C18 as amended: analyze_animation_bounds samples frame_start, frame_start + step,
\* ... up to the last such frame not beyond frame_end, with
\* step = max(1, (frame_end - frame_start) div 20); the number of sampled frames is
\* at most 40 for every range (at most 21 only while the range spans at most 20
\* frames; a span of 39 is sampled 40 times).
C18_SampledFrames ==
    an.stage \in {"loop", "done"} /\ an.animation_name \in {a.name : a \in actions}
        => LET span == an.frame_end - an.frame_start
               step == IF span < 20 THEN 1 ELSE span \div 20
           IN  /\ an.step = step
               /\ \A k \in 1..Len(an.samples) :
                    /\ an.samples[k] = an.frame_start + (k - 1) * step
                    /\ an.samples[k] <= an.frame_end
               /\ an.stage = "done"
                    => /\ an.frame_start + Len(an.samples) * step > an.frame_end
                       /\ Len(an.samples) >= 1
               /\ Len(an.samples) <= 40
               /\ span <= 20 => Len(an.samples) <= 21

C18_Witness ==
    /\ an.stage = "done"
    /\ an.frame_end - an.frame_start = 39
    /\ Len(an.samples) = 40

\* C18 as stated: for every range the number of sampled frames is at most 21.
C18_Original ==
    an.stage \in {"loop", "done"} /\ an.animation_name \in {a.name : a \in actions}
        => LET span == an.frame_end - an.frame_start
               step == IF span < 20 THEN 1 ELSE span \div 20
           IN  /\ an.step = step
               /\ \A k \in 1..Len(an.samples) :
                    /\ an.samples[k] = an.frame_start + (k - 1) * step
                    /\ an.samples[k] <= an.frame_end
               /\ Len(an.samples) <= 21

\* the pixels of grid cell i of the saved sheet, as <<x, y, pixel>> with x, y in the cell
CellPixels(i) ==
    {<<x, y, SavedPixel(res.sheet, sh.size, (i % sh.cols) * sh.size + x,
                        (i \div sh.cols) * sh.size + y)>> :
        x \in 0..(sh.size - 1), y \in 0..(sh.size - 1)}

\* C11: in a written sheet every pixel of a cell whose index is >= the frame count is
\* (0,0,0,0), and every pixel of a filled cell equals the pixel of the frame packed
\* into it, alpha included (overwrite, no blending with the background); 3 frames in
\* a 2x2 grid leave the 4th cell fully transparent.
C11_CellPixels ==
    res.sheet.written
        => \A i \in 0..(sh.cols * sh.rows - 1) :
            /\ i >= res.frame_count => \A t \in CellPixels(i) : t[3] = Transparent
            /\ \A p \in res.sheet.pastes :
                p.i = i => \A t \in CellPixels(i) : t[3] = FramePixel(p.src, t[1], t[2])
            /\ (res.frame_count = 3 /\ sh.cols = 2 /\ sh.rows = 2 /\ i = 3)
                => \A t \in CellPixels(i) : t[3][4] = 0

C11_Witness ==
    /\ res.sheet.written
    /\ res.frame_count = 3
    /\ sh.cols = 2
    /\ sh.rows = 2
    /\ sh.size = 2
    /\ Cardinality(res.sheet.pastes) = 3
    /\ res.sheet.path = "fallback"
    /\ \E t \in CellPixels(2) : t[3][4] = 127

\* the seven characters the claim names
Forbidden == {"|", ":", "*", "?", "<", ">", "\""}

\* out is name with each forbidden character replaced by '_' and nothing else changed
Sanitized(name, out) ==
    /\ Len(out) = Len(name)
    /\ \A k \in 1..Len(name) : out[k] = (IF name[k] \in Forbidden THEN "_" ELSE name[k])
    /\ Range(out) \cap Forbidden = {}
    /\ CleanName(out) = out
    /\ name = <<"W", "a", "l", "k", ":", "L", "o", "o", "p", "*">>
        => out = <<"W", "a", "l", "k", "_", "L", "o", "o", "p", "_">>

\* C21: the base of every generated file name (the frame files and the sheet) is the
\* name it was made from (the chosen name: stripped export base name, else the action
\* name; for the frames the sheet operator renders into temp_frames, the action name)
\* with each of | : * ? < > " replaced by '_' and nothing else changed: same length,
\* none of the seven characters left, 'Walk:Loop*' gives 'Walk_Loop_', and
\* sanitizing the result again changes nothing.
C21_SanitizedNames ==
    LET chosen == ChosenName(props.export_basename, call.animation_name)
    IN  /\ op = "frames" /\ call.output_dir # "none" => NameSource(call) = chosen
        /\ \A k \in 1..Len(res.written) : Sanitized(NameSource(call), res.written[k].name)
        /\ res.sheet.written => Sanitized(chosen, res.sheet.name)

C21_Witness ==
    /\ res.sheet.written
    /\ props.export_basename = <<>>
    /\ call.animation_name = <<"a", "|", ":", "*", "?", "<", ">", "\"", "b">>
    /\ res.sheet.name = <<"a", "_", "_", "_", "_", "_", "_", "_", "b">>
    /\ Len(res.written) = 2
    /\ res.written[2].name = res.sheet.name

\* positions of the packing steps of a kind
IOPos(kinds) == {q \in 1..Len(res.io) : res.io[q].kind \in kinds}

C23_FlipReflects ==
    (cam.placed.exists /\ cam.flips = 1)
        => LET off == VSub(cam.placed.location, Center)
               new == VSub(scene.camera.location, Center)
           IN  /\ props.camera_angle = "FRONT" => new = <<off[1], 0 - off[2], off[3]>>
               /\ props.camera_angle = "SIDE" => new = <<0 - off[1], off[2], off[3]>>
               /\ props.camera_angle = "ISO" => new = <<0 - off[1], 0 - off[2], off[3]>>
               /\ props.camera_angle = "CUSTOM"
                    => scene.camera.location
                        = [i \in 1..3 |-> 2 * Center[i] - cam.placed.location[i]]
               /\ CameraDistance(scene.camera) = CameraDistance(cam.placed)
               /\ scene.camera.ortho_scale = cam.placed.ortho_scale

\* C24: in export-spritesheet, for every configured start/end frame and every native
\* range, the number of frames export_animation_frames renders is the desired_frames
\* the grid was computed from; so a written sheet has fewer than `columns` unfilled
\* cells, and the rows x columns of its name is the grid of the frames it holds.
C24_RenderedEqualsDesired ==
    (op = "sheet" /\ res.returned)
        => /\ res.frame_count = sh.desired_frames
           /\ Len(res.written) = sh.desired_frames
           /\ res.sheet.written
                => LET n == Cardinality(res.sheet.pastes)
                   IN  /\ res.sheet.cols * res.sheet.rows - n < res.sheet.cols
                       /\ (res.sheet.cols - 1) * (res.sheet.cols - 1) < n
                       /\ (res.sheet.rows - 1) * res.sheet.cols < n

\* C25: the frames composited into a written sheet are exactly the frames rendered
\* by the current invocation, in emission order: cell i holds the frame emitted with
\* index i, every emitted frame has its cell, and a file that was in temp_frames
\* before the invocation is never packed.
C25_PacksOwnFrames ==
    (op = "sheet" /\ res.sheet.written)
        => /\ \A p \in res.sheet.pastes :
                /\ p.i < Len(res.written)
                /\ p.src = res.written[p.i + 1]
                /\ p.src.run = runs
           /\ \A i \in 0..(Len(res.written) - 1) : \E p \in res.sheet.pastes : p.i = i

====
